---- MODULE Spec2Model ----
(***************************************************************************)
(* Model of the ETL framework of level_06_projects/07_etl_framework.py:    *)
(* the connectors (SQLiteConnector, ParquetConnector, JSONConnector), the  *)
(* DataTransformer, the ETLPipeline with its metrics and the ETLFramework  *)
(* with its dictionaries of connectors and pipelines.                      *)
(*                                                                         *)
(* Spec drives one pipeline through its builder calls, run() and           *)
(* get_metrics(); SpecRun runs pipelines whose step lists hold failing     *)
(* steps; SpecTransformer, SpecStore, SpecHandles and SpecLifecycle call   *)
(* the transformer and the connectors on their own; SpecFramework is a     *)
(* client of the framework; SpecSequence and SpecThreads run two pipelines *)
(* that share connectors, one after the other and in two threads.          *)
(*                                                                         *)
(* A DataFrame is a record [cols, rows]: the ordered column names and the  *)
(* rows, each row a sequence of integers aligned with cols.  The storage   *)
(* behind a connector is the environment: what a read returns and whether  *)
(* a write succeeds is chosen nondeterministically.  Exceptions are the    *)
(* ones that derive from Exception, which is what the handlers of the      *)
(* code catch.                                                             *)
(***************************************************************************)
EXTENDS Integers, Sequences, FiniteSets, TLC

\* ------------------------------------------------------------- bounds
\* Most rows a backend read returns.
MaxRows == 2
\* Most connection handles a connector opens.
MaxHandles == 3
\* Most steps a pipeline is given.
MaxSteps == 2
\* Last instant of the clock read by datetime.now().
MaxTime == 5

\* ---------------------------------------------------------- constants
\* metrics['start_time'] / metrics['end_time'] before they are set (None).
NoTime == 0
None == "None"

Pipelines == {"p1", "p2"}
\* The single-threaded client drives one pipeline.
Driven == {"p1"}
Connectors == {"sqlite", "parquet"}

\* ---------------------------------------------------------- DataFrame
\* The backend table has columns k and v; its rows are among these.
TableCols == <<"k", "v">>
TableRow == {<<1, 1>>, <<1, 2>>, <<2, 2>>}

\* A missing value of a cell (None / NaN); the values proper are positive.
Null == -1

RECURSIVE SeqsUpTo(_, _)
SeqsUpTo(S, n) ==
    IF n = 0 THEN {<<>>}
    ELSE LET shorter == SeqsUpTo(S, n - 1)
         IN  shorter \cup {Append(s, x) : s \in {t \in shorter : Len(t) = n - 1}, x \in S}

\* pd.DataFrame(): no columns, no rows.
EmptyDF == [cols |-> <<>>, rows |-> <<>>]
\* What a read of the backend table can return (possibly zero rows).
BackendFrames == {[cols |-> TableCols, rows |-> r] : r \in SeqsUpTo(TableRow, MaxRows)}

\* len(df)
DFLen(df) == Len(df.rows)
\* Mutant of DFEmpty: only a frame without columns counts as empty.
DFEmpty_ColumnsOnly(df) == Len(df.cols) = 0

\* df.empty: some axis has length 0.
DFEmpty(df) == Len(df.cols) = 0 \/ Len(df.rows) = 0

HasCol(df, c) == \E i \in 1..Len(df.cols) : df.cols[i] = c
ColIndex(df, c) == CHOOSE i \in 1..Len(df.cols) : df.cols[i] = c

\* -------------------------------------------------------- transformer
\* Filter conditions "<col> > <gt>"; the second one names no column of the table.
Conditions == {[col |-> "v", gt |-> 1], [col |-> "zz", gt |-> 1]}

\* The frame df without its column number i.
Without(df, i) ==
    LET Cut(r) == SubSeq(r, 1, i - 1) \o SubSeq(r, i + 1, Len(r))
    IN  [cols |-> Cut(df.cols), rows |-> [n \in 1..Len(df.rows) |-> Cut(df.rows[n])]]

\* Mutant of filter_data: the column the condition tests is dropped from the
\* result.
filter_data_Projects(df, cond) ==
    IF ~HasCol(df, cond.col) THEN df
    ELSE LET i == ColIndex(df, cond.col)
             Keep(row) == row[i] # Null /\ row[i] > cond.gt
         IN  Without([cols |-> df.cols, rows |-> SelectSeq(df.rows, Keep)], i)

\* Mutant of filter_data: on an error the rows are dropped.
filter_data_DropsOnError(df, cond) ==
    IF ~HasCol(df, cond.col) THEN [cols |-> df.cols, rows |-> <<>>]
    ELSE LET i == ColIndex(df, cond.col)
             Keep(row) == row[i] # Null /\ row[i] > cond.gt
         IN  [cols |-> df.cols, rows |-> SelectSeq(df.rows, Keep)]

\* DataTransformer.filter_data: data.query(condition); on an error the data
\* is returned unchanged.
filter_data(df, cond) ==
    IF ~HasCol(df, cond.col) THEN df
    ELSE LET i == ColIndex(df, cond.col)
             Keep(row) == row[i] # Null /\ row[i] > cond.gt
         IN  [cols |-> df.cols, rows |-> SelectSeq(df.rows, Keep)]

\* Lexicographic order on key tuples of the same length.
RECURSIVE LexLess(_, _)
LexLess(a, b) ==
    IF Len(a) = 0 THEN FALSE
    ELSE \/ a[1] < b[1]
         \/ a[1] = b[1] /\ LexLess(Tail(a), Tail(b))

\* The key tuples of S in increasing order (groupby sorts the group keys).
RECURSIVE SortKeys(_)
SortKeys(S) ==
    IF S = {} THEN <<>>
    ELSE LET m == CHOOSE x \in S : \A y \in S \ {x} : LexLess(x, y)
         IN  <<m>> \o SortKeys(S \ {m})

RECURSIVE SumSeq(_)
SumSeq(s) == IF Len(s) = 0 THEN 0 ELSE s[1] + SumSeq(Tail(s))

AggFuncs == {"sum", "count"}
\* sum and count skip the missing values.
Reduce(func, vals) ==
    LET Present(x) == x # Null
        present == SelectSeq(vals, Present)
    IN  IF func = "sum" THEN SumSeq(present) ELSE Len(present)

\* Aggregations: group_by column list and agg_config as (column, function) pairs.
AggSpecs == {[group_by |-> <<"k">>, agg_config |-> <<<<"v", "sum">>>>]}

AggValid(df, group_by, agg_config) ==
    /\ Len(group_by) > 0
    /\ \A i \in 1..Len(group_by) : HasCol(df, group_by[i])
    /\ \A j \in 1..Len(agg_config) :
          /\ HasCol(df, agg_config[j][1])
          /\ agg_config[j][2] \in AggFuncs
          /\ \A i \in 1..Len(group_by) : group_by[i] # agg_config[j][1]

\* Mutant of aggregate_data: the rows are not grouped, and a row of totals
\* without key is added after them.
aggregate_data_WithTotals(df, group_by, agg_config) ==
    IF ~AggValid(df, group_by, agg_config) THEN df
    ELSE LET out == group_by \o [j \in 1..Len(agg_config) |-> agg_config[j][1]]
             OutRow(row) == [i \in 1..Len(out) |-> row[ColIndex(df, out[i])]]
         IN  [cols |-> out,
              rows |-> [n \in 1..Len(df.rows) |-> OutRow(df.rows[n])]
                       \o <<[i \in 1..Len(out) |-> Null]>>]

\* DataTransformer.aggregate_data: data.groupby(group_by).agg(agg_config)
\* .reset_index(); on an error the data is returned unchanged.  groupby is
\* called with its defaults: the groups are sorted by key, and a row with a
\* missing value in a key column belongs to no group (dropna=True).
aggregate_data(df, group_by, agg_config) ==
    IF ~AggValid(df, group_by, agg_config) THEN df
    ELSE LET KeyOf(row) == [i \in 1..Len(group_by) |-> row[ColIndex(df, group_by[i])]]
             Whole(key) == \A i \in 1..Len(key) : key[i] # Null
             keys == SortKeys({k \in {KeyOf(df.rows[n]) : n \in 1..Len(df.rows)} : Whole(k)})
             Group(key) == LET In(row) == KeyOf(row) = key
                           IN  SelectSeq(df.rows, In)
             ColVals(rs, c) == [n \in 1..Len(rs) |-> rs[n][ColIndex(df, c)]]
             OutRow(key) == key \o [j \in 1..Len(agg_config) |->
                               Reduce(agg_config[j][2], ColVals(Group(key), agg_config[j][1]))]
         IN  [cols |-> group_by \o [j \in 1..Len(agg_config) |-> agg_config[j][1]],
              rows |-> [n \in 1..Len(keys) |-> OutRow(keys[n])]]

\* An aggregation that groups by a column the table does not have.
BadAggSpecs == {[group_by |-> <<"zz">>, agg_config |-> <<<<"v", "sum">>>>]}

\* Injected transform functions: "dup" appends a copy of every row, "boom"
\* raises.
TransformFns == {"dup", "boom"}
TransformRaises(fn, df) == fn = "boom"
TransformResult(fn, df) == [cols |-> df.cols, rows |-> df.rows \o df.rows]

\* --------------------------------------------------------- connectors
\* A call of a connector method ends in one of these ways: it returns (df for
\* extract, ok for load) or raises; connection is the connector's handle state
\* after the call (TRUE: self.connection is set).
CallResult(raised, df, ok, conn) == [raised |-> raised, df |-> df, ok |-> ok, connection |-> conn]

\* SQLiteConnector.extract: connects when there is no connection and returns an
\* empty frame when that fails; returns what the query reads, or an empty frame
\* when the query fails or neither query nor table is given.  The call raises
\* TypeError (before the body runs) when the parameters cannot be passed.
SQLiteExtract(conn) ==
    {CallResult(TRUE, EmptyDF, FALSE, conn)}
    \cup (IF conn THEN {} ELSE {CallResult(FALSE, EmptyDF, FALSE, FALSE)})
    \cup {CallResult(FALSE, df, FALSE, TRUE) : df \in BackendFrames \cup {EmptyDF}}

\* ParquetConnector.extract: never touches self.connection; a missing file or a
\* read error gives an empty frame; a call without file_name raises TypeError.
ParquetExtract(conn) ==
    {CallResult(TRUE, EmptyDF, FALSE, conn)}
    \cup {CallResult(FALSE, df, FALSE, conn) : df \in BackendFrames \cup {EmptyDF}}

\* JSONConnector.extract: as the Parquet one, with read_json.
JSONExtract(conn) ==
    {CallResult(TRUE, EmptyDF, FALSE, conn)}
    \cup {CallResult(FALSE, df, FALSE, conn) : df \in BackendFrames \cup {EmptyDF}}

extract(c, conn) ==
    IF c = "sqlite" THEN SQLiteExtract(conn)
    ELSE IF c = "parquet" THEN ParquetExtract(conn)
    ELSE JSONExtract(conn)

\* Mutant of SQLiteLoad: the connection is closed when the load is done.
SQLiteLoad_Closes(conn, df) ==
    {CallResult(TRUE, df, FALSE, conn)}
    \cup (IF conn THEN {} ELSE {CallResult(FALSE, df, FALSE, FALSE)})
    \cup {CallResult(FALSE, df, ok, FALSE) : ok \in BOOLEAN}

\* SQLiteConnector.load: connects when there is no connection and returns False
\* when that fails; True when to_sql succeeds, False when it raises.  The call
\* raises TypeError when table_name is not among the parameters.
SQLiteLoad(conn, df) ==
    {CallResult(TRUE, df, FALSE, conn)}
    \cup (IF conn THEN {} ELSE {CallResult(FALSE, df, FALSE, FALSE)})
    \cup {CallResult(FALSE, df, ok, TRUE) : ok \in BOOLEAN}

\* ParquetConnector.load: True when to_parquet succeeds, False when it raises;
\* a call without file_name raises TypeError.
ParquetLoad(conn, df) ==
    {CallResult(TRUE, df, FALSE, conn)}
    \cup {CallResult(FALSE, df, ok, conn) : ok \in BOOLEAN}

\* JSONConnector.load: as the Parquet one, with to_json.
JSONLoad(conn, df) ==
    {CallResult(TRUE, df, FALSE, conn)}
    \cup {CallResult(FALSE, df, ok, conn) : ok \in BOOLEAN}

load(c, conn, df) ==
    IF c = "sqlite" THEN SQLiteLoad(conn, df)
    ELSE IF c = "parquet" THEN ParquetLoad(conn, df)
    ELSE JSONLoad(conn, df)

\* ------------------------------------------------------------ pipeline
Statuses == {"PENDING", "RUNNING", "SUCCESS", "WARNING", "FAILED"}

\* ETLPipeline.__init__: self.metrics
InitMetrics == [start_time |-> NoTime, end_time |-> NoTime,
                rows_extracted |-> 0, rows_loaded |-> 0, status |-> "PENDING"]

\* Call log of the current (or just returned) run(): the rows the extract
\* returned (-1: it did not return), the steps applied, the rows handed to load
\* (-1: not called), whether load returned True, and whether an exception was
\* raised inside the try block.  input is the frame the extract returned, kept
\* while the run works on it.
InitLog == [extract |-> -1, input |-> EmptyDF, applied |-> 0, load |-> -1,
            load_ok |-> FALSE, raised |-> FALSE]

\* The connector classes: SQLiteConnector, ParquetConnector, JSONConnector.
ConnectorTypes == Connectors \cup {"json"}

\* A destination (table or file) that does not exist.
Absent == [exists |-> FALSE, df |-> EmptyDF]

\* No DataTransformer call, no connector call is under examination.
NoProbe == [op |-> "none", df |-> EmptyDF, out |-> EmptyDF]
NoIO == [op |-> "none", c |-> None, before |-> Absent, df |-> EmptyDF, ok |-> FALSE,
         out |-> EmptyDF]

\* DataConnector.__init__: self.connection = None, nothing opened.  current is
\* the handle self.connection holds (0: None), open the handles not closed,
\* opened the number of handles opened so far, last the last call, thread the
\* thread that opened the current handle (None: the client's main thread).
NoHandles == [current |-> 0, open |-> {}, opened |-> 0, last |-> "none", thread |-> None]

\* ETLFramework.__init__: no connectors, no pipelines.  made is the set of
\* the ETLPipeline objects constructed so far; call is the name run_pipeline is
\* running (None: no call in progress) and entered the clock reading when it
\* was entered; op, name, arg and ret are the last call of a framework method,
\* its arguments and what it returned.
Names == {"a", "b"}
InitFramework == [connectors |-> [n \in Names |-> None], pipelines |-> [n \in Names |-> None],
                  made |-> {}, call |-> None, entered |-> NoTime,
                  op |-> "none", name |-> None, arg |-> None, ret |-> "none"]

\* No get_metrics() result is held by the client.
NoView == [held |-> FALSE]

VARIABLES
    source_connector,   \* pipeline -> connector or None
    target_connector,   \* pipeline -> connector or None
    steps,              \* pipeline -> sequence of step dictionaries
    metrics,            \* pipeline -> metrics dictionary
    connection,         \* connector -> whether self.connection is set
    now,                \* the clock datetime.now() reads
    pc,                 \* pipeline -> position of its run(): idle when not running
    data,               \* pipeline -> the local variable data of run()
    idx,                \* pipeline -> index of the next step of the for loop
    ret,                \* pipeline -> what the last run() or builder call returned
    log,                \* pipeline -> call log of the current or last run()
    view,               \* pipeline -> the dictionary the last get_metrics() returned
    probe,              \* the DataTransformer call under examination
    store,              \* connector -> what its destination (table or file) holds
    io,                 \* the connector load / extract calls under examination
    handles,            \* connector -> the connection handles it has opened
    fw                  \* the ETLFramework: its dictionaries and its current call

\* The state of the pipelines and of the clock.
pipelineVars == <<source_connector, target_connector, steps, metrics, now,
                  pc, data, idx, ret, log, view>>
\* The state beside the pipelines.
aside == <<probe, store, io, handles, fw>>

vars == <<source_connector, target_connector, steps, metrics, connection, now,
          pc, data, idx, ret, log, view, probe, store, io, handles, fw>>

\* datetime.now(): every read is later than the one before; a run() reads the
\* clock twice.
Tick(t) == t + 1
ReadsPerRun == 2

Init ==
    /\ source_connector = [p \in Pipelines |-> None]
    /\ target_connector = [p \in Pipelines |-> None]
    /\ steps = [p \in Pipelines |-> <<>>]
    /\ metrics = [p \in Pipelines |-> InitMetrics]
    /\ connection = [c \in Connectors |-> FALSE]
    /\ now = 1
    /\ pc = [p \in Pipelines |-> "idle"]
    /\ data = [p \in Pipelines |-> EmptyDF]
    /\ idx = [p \in Pipelines |-> 1]
    /\ ret = [p \in Pipelines |-> "none"]
    /\ log = [p \in Pipelines |-> InitLog]
    /\ view = [p \in Pipelines |-> NoView]
    /\ probe = NoProbe
    /\ store = [c \in ConnectorTypes |-> Absent]
    /\ io = NoIO
    /\ handles = [c \in ConnectorTypes |-> NoHandles]
    /\ fw = InitFramework

\* ---- builder operations
\* No run() of p is executing: p is idle, or its run() has just returned (done)
\* and the caller still holds the return value.
Quiet(p) == pc[p] \in {"idle", "done"}

\* The next call on p, which returns r: the caller lets go of what the last
\* run() returned.
Resume(p, r) ==
    /\ pc' = [pc EXCEPT ![p] = "idle"]
    /\ ret' = [ret EXCEPT ![p] = r]
    /\ log' = [log EXCEPT ![p] = InitLog]

\* set_source: return self
SetSource(p, c) ==
    /\ Quiet(p)
    /\ source_connector' = [source_connector EXCEPT ![p] = c]
    /\ view' = [view EXCEPT ![p] = NoView]
    /\ Resume(p, p)
    /\ UNCHANGED <<target_connector, steps, metrics, connection, now, data, idx>>
    /\ UNCHANGED aside

\* set_target: return self
SetTarget(p, c) ==
    /\ Quiet(p)
    /\ target_connector' = [target_connector EXCEPT ![p] = c]
    /\ view' = [view EXCEPT ![p] = NoView]
    /\ Resume(p, p)
    /\ UNCHANGED <<source_connector, steps, metrics, connection, now, data, idx>>
    /\ UNCHANGED aside

\* Mutant of AppendStep: the step is put in front of the list.
AppendStep_Prepend(p, step) ==
    /\ Quiet(p)
    /\ Len(steps[p]) < MaxSteps
    /\ steps' = [steps EXCEPT ![p] = <<step>> \o @]
    /\ view' = [view EXCEPT ![p] = NoView]
    /\ Resume(p, p)
    /\ UNCHANGED <<source_connector, target_connector, metrics, connection, now, data, idx>>
    /\ UNCHANGED aside

\* self.steps.append(step); return self
AppendStep(p, step) ==
    /\ Quiet(p)
    /\ Len(steps[p]) < MaxSteps
    /\ steps' = [steps EXCEPT ![p] = Append(@, step)]
    /\ view' = [view EXCEPT ![p] = NoView]
    /\ Resume(p, p)
    /\ UNCHANGED <<source_connector, target_connector, metrics, connection, now, data, idx>>
    /\ UNCHANGED aside

add_transformation(p, f) == AppendStep(p, [type |-> "transform", function |-> f])
add_filter(p, c) == AppendStep(p, [type |-> "filter", condition |-> c])
add_aggregation(p, a) ==
    AppendStep(p, [type |-> "aggregate", group_by |-> a.group_by, agg_config |-> a.agg_config])

\* ---- run(): the effects of its branches on self.metrics
\* Mutant of StartMetrics: the entry of run() resets the status to PENDING.
StartMetrics_Pending(m, t) == [m EXCEPT !.start_time = t, !.status = "PENDING"]

\* self.metrics['start_time'] = datetime.now(); self.metrics['status'] = 'RUNNING'
StartMetrics(m, t) == [m EXCEPT !.start_time = t, !.status = "RUNNING"]

\* Mutants of OnException: the handler returns False without setting the status;
\* the exception is not caught and leaves run().
OnException_KeepsStatus(m) == [metrics |-> m, ret |-> "false"]
OnException_Propagates(m) == [metrics |-> m, ret |-> "raised"]

\* Mutant of OnException: the handler also clears the extracted row count.
OnException_ClearsRows(m) ==
    [metrics |-> [m EXCEPT !.status = "FAILED", !.rows_extracted = 0], ret |-> "false"]

\* except Exception: status FAILED, return False
OnException(m) == [metrics |-> [m EXCEPT !.status = "FAILED"], ret |-> "false"]

\* if data.empty: status WARNING, return False
OnEmptyExtraction(m) == [metrics |-> [m EXCEPT !.status = "WARNING"], ret |-> "false"]

\* self.metrics['rows_extracted'] = len(data)
RecordExtracted(m, df) == [m EXCEPT !.rows_extracted = DFLen(df)]

\* Mutant of OnLoadSuccess: rows_loaded is taken from rows_extracted.
OnLoadSuccess_RowsExtracted(m, df) ==
    [metrics |-> [m EXCEPT !.rows_loaded = m.rows_extracted, !.status = "SUCCESS"], ret |-> "true"]

\* if success: rows_loaded = len(data), status SUCCESS (then return True)
OnLoadSuccess(m, df) ==
    [metrics |-> [m EXCEPT !.rows_loaded = DFLen(df), !.status = "SUCCESS"], ret |-> "true"]

\* Mutant of OnLoadFailure: a failed load is reported as WARNING.
OnLoadFailure_Warning(m) == [metrics |-> [m EXCEPT !.status = "WARNING"], ret |-> "false"]

\* else: status FAILED, return False
OnLoadFailure(m) == [metrics |-> [m EXCEPT !.status = "FAILED"], ret |-> "false"]

\* no target connector: the load block is skipped, return True
OnNoTarget(m) == [metrics |-> m, ret |-> "true"]

\* Mutant of FinallyMetrics: end_time is not set on the way out.
FinallyMetrics_Skipped(m, t) == m

\* finally: self.metrics['end_time'] = datetime.now()
FinallyMetrics(m, t) == [m EXCEPT !.end_time = t]

\* One step of the for loop applied to data: the new data, or a raise.
ApplyStep(step, df) ==
    IF step.type = "transform"
    THEN [raised |-> TransformRaises(step.function, df),
          df |-> TransformResult(step.function, df)]
    ELSE IF step.type = "filter"
    THEN [raised |-> FALSE, df |-> filter_data(df, step.condition)]
    ELSE [raised |-> FALSE, df |-> aggregate_data(df, step.group_by, step.agg_config)]

\* ---- run(), step by step; nothing else runs on the pipeline meanwhile
\* Entry of run(): start_time and status RUNNING.
RunStart(p) ==
    /\ Quiet(p)
    /\ now + ReadsPerRun <= MaxTime
    /\ now' = Tick(now)
    /\ metrics' = [metrics EXCEPT ![p] = StartMetrics(@, Tick(now))]
    /\ pc' = [pc EXCEPT ![p] = "extract"]
    /\ ret' = [ret EXCEPT ![p] = "none"]
    /\ log' = [log EXCEPT ![p] = InitLog]
    /\ view' = [view EXCEPT ![p] = NoView]
    /\ UNCHANGED <<source_connector, target_connector, steps, connection, data, idx>>
    /\ UNCHANGED aside

\* run() leaves through a return statement or the exception handler with
\* outcome out = [metrics, ret]; the finally block sets end_time on the way out
\* and the locals of run() are gone.
Leave(p, out) ==
    /\ now' = Tick(now)
    /\ metrics' = [metrics EXCEPT ![p] = FinallyMetrics(out.metrics, Tick(now))]
    /\ ret' = [ret EXCEPT ![p] = out.ret]
    /\ pc' = [pc EXCEPT ![p] = "done"]
    /\ data' = [data EXCEPT ![p] = EmptyDF]
    /\ idx' = [idx EXCEPT ![p] = 1]

\* The source check fails: raise ValueError, caught by the handler.
RunNoSource(p) ==
    /\ pc[p] = "extract"
    /\ source_connector[p] = None
    /\ Leave(p, OnException(metrics[p]))
    /\ log' = [log EXCEPT ![p].raised = TRUE]
    /\ UNCHANGED <<source_connector, target_connector, steps, connection, view>>
    /\ UNCHANGED aside

\* data = self.source_connector.extract(**extract_params), and the branch on
\* data.empty.
RunExtract(p) ==
    /\ pc[p] = "extract"
    /\ source_connector[p] # None
    /\ LET c == source_connector[p] IN
       \E r \in extract(c, connection[c]) :
          /\ connection' = [connection EXCEPT ![c] = r.connection]
          /\ IF r.raised
             THEN /\ Leave(p, OnException(metrics[p]))
                  /\ log' = [log EXCEPT ![p].raised = TRUE]
             ELSE IF DFEmpty(r.df)
             THEN /\ Leave(p, OnEmptyExtraction(metrics[p]))
                  /\ log' = [log EXCEPT ![p].extract = DFLen(r.df)]
             ELSE /\ metrics' = [metrics EXCEPT ![p] = RecordExtracted(@, r.df)]
                  /\ data' = [data EXCEPT ![p] = r.df]
                  /\ log' = [log EXCEPT ![p].extract = DFLen(r.df), ![p].input = r.df]
                  /\ pc' = [pc EXCEPT ![p] = "transform"]
                  /\ UNCHANGED <<ret, now, idx>>
    /\ UNCHANGED <<source_connector, target_connector, steps, view>>
    /\ UNCHANGED aside

\* Mutant of NextStep: the loop walks the step list from its end.
NextStep_Reversed(p) == steps[p][Len(steps[p]) + 1 - idx[p]]

\* The step the for loop is at.
NextStep(p) == steps[p][idx[p]]

\* One iteration of "for step in self.steps".
RunStep(p) ==
    /\ pc[p] = "transform"
    /\ idx[p] <= Len(steps[p])
    /\ LET r == ApplyStep(NextStep(p), data[p]) IN
       IF r.raised
       THEN /\ Leave(p, OnException(metrics[p]))
            /\ log' = [log EXCEPT ![p].raised = TRUE, ![p].input = EmptyDF]
       ELSE /\ data' = [data EXCEPT ![p] = r.df]
            /\ idx' = [idx EXCEPT ![p] = @ + 1]
            /\ log' = [log EXCEPT ![p].applied = @ + 1]
            /\ UNCHANGED <<metrics, ret, pc, now>>
    /\ UNCHANGED <<source_connector, target_connector, steps, connection, view>>
    /\ UNCHANGED aside

\* After the loop, without target connector: return True.
RunNoTarget(p) ==
    /\ pc[p] = "transform"
    /\ idx[p] > Len(steps[p])
    /\ target_connector[p] = None
    /\ Leave(p, OnNoTarget(metrics[p]))
    /\ log' = [log EXCEPT ![p].input = EmptyDF]
    /\ UNCHANGED <<source_connector, target_connector, steps, connection, view>>
    /\ UNCHANGED aside

\* After the loop: success = self.target_connector.load(data, **load_params).
RunLoad(p) ==
    /\ pc[p] = "transform"
    /\ idx[p] > Len(steps[p])
    /\ target_connector[p] # None
    /\ LET c == target_connector[p] IN
       \E r \in load(c, connection[c], data[p]) :
          /\ connection' = [connection EXCEPT ![c] = r.connection]
          /\ Leave(p, IF r.raised THEN OnException(metrics[p])
                      ELSE IF r.ok THEN OnLoadSuccess(metrics[p], data[p])
                      ELSE OnLoadFailure(metrics[p]))
          /\ log' = [log EXCEPT ![p].load = DFLen(data[p]),
                                ![p].load_ok = ~r.raised /\ r.ok,
                                ![p].raised = r.raised,
                                ![p].input = EmptyDF]
    /\ UNCHANGED <<source_connector, target_connector, steps, view>>
    /\ UNCHANGED aside

\* Mutant of MetricsView: the dictionary returned is self.metrics itself.
MetricsView_Shared(m) ==
    [held |-> TRUE, shared |-> TRUE, changed |-> FALSE, metrics |-> m,
     has_duration |-> m.start_time # NoTime /\ m.end_time # NoTime,
     duration_seconds |-> m.end_time - m.start_time]

\* get_metrics(): a copy of self.metrics (shared: the returned dictionary is
\* the pipeline's own), with duration_seconds when both times are set; changed
\* tells whether the client has written to it since.
MetricsView(m) ==
    [held |-> TRUE, shared |-> FALSE, changed |-> FALSE, metrics |-> m,
     has_duration |-> m.start_time # NoTime /\ m.end_time # NoTime,
     duration_seconds |-> m.end_time - m.start_time]

GetMetrics(p) ==
    /\ Quiet(p)
    /\ view' = [view EXCEPT ![p] = MetricsView(metrics[p])]
    /\ Resume(p, "none")
    /\ UNCHANGED <<source_connector, target_connector, steps, metrics, connection, now,
                   data, idx>>
    /\ UNCHANGED aside

\* A row count no pipeline writes, which the client puts in the record.
Scribble == -1

\* The client writes to the dictionary get_metrics() returned: to the
\* pipeline's metrics too when the two are one object.
ChangeView(p) ==
    /\ view[p].held /\ ~view[p].changed
    /\ view' = [view EXCEPT ![p].changed = TRUE, ![p].metrics.rows_loaded = Scribble]
    /\ metrics' = IF view[p].shared THEN [metrics EXCEPT ![p].rows_loaded = Scribble]
                  ELSE metrics
    /\ UNCHANGED <<source_connector, target_connector, steps, connection, now,
                   pc, data, idx, ret, log>>
    /\ UNCHANGED aside

Next ==
    \/ \E p \in Driven, c \in Connectors \cup {None} : SetSource(p, c)
    \/ \E p \in Driven, c \in Connectors \cup {None} : SetTarget(p, c)
    \/ \E p \in Driven, f \in TransformFns : add_transformation(p, f)
    \/ \E p \in Driven, c \in Conditions : add_filter(p, c)
    \/ \E p \in Driven, a \in AggSpecs : add_aggregation(p, a)
    \/ \E p \in Driven : RunStart(p)
    \/ \E p \in Driven : RunNoSource(p)
    \/ \E p \in Driven : RunExtract(p)
    \/ \E p \in Driven : RunStep(p)
    \/ \E p \in Driven : RunNoTarget(p)
    \/ \E p \in Driven : RunLoad(p)
    \/ \E p \in Driven : GetMetrics(p)
    \/ \E p \in Driven : ChangeView(p)

Spec == Init /\ [][Next]_vars

\* run() of p has just returned ret[p]; log[p] is the call log of that run.
Returned(p) == pc[p] = "done"

TypeOK ==
    /\ \A p \in Pipelines :
          /\ metrics[p].status \in Statuses
          /\ pc[p] \in {"idle", "extract", "transform", "done"}
          /\ ret[p] \in {"none", "true", "false"} \cup Pipelines
          /\ Len(steps[p]) <= MaxSteps
    /\ now \in 1..MaxTime

\* ============================================================ claims
Terminal == {"SUCCESS", "WARNING", "FAILED"}

\* C1: a run() called on a pipeline without source connector returns False and
\* leaves the status FAILED, whatever the target, the steps and the earlier
\* runs of the pipeline.
C1_NoSourceFails ==
    \A p \in Pipelines :
        Returned(p) /\ source_connector[p] = None
            => ret[p] = "false" /\ metrics[p].status = "FAILED"

\* A run() without source has returned on a pipeline that extracted rows in an
\* earlier run and has a target and steps.
C1_Witness ==
    \E p \in Pipelines :
        /\ Returned(p) /\ source_connector[p] = None
        /\ metrics[p].rows_extracted > 0
        /\ target_connector[p] # None /\ Len(steps[p]) > 0

\* C2 (as claimed): when the extract returned at least one row, no step raised
\* and no target connector is set, the load is skipped, run() returns True, the
\* status is SUCCESS and rows_loaded is 0.
C2_NoTargetIsSuccess ==
    \A p \in Pipelines :
        Returned(p) /\ log[p].extract >= 1 /\ ~log[p].raised /\ target_connector[p] = None
            => /\ log[p].load = -1
               /\ ret[p] = "true"
               /\ metrics[p].status = "SUCCESS"
               /\ metrics[p].rows_loaded = 0

\* C3 (as claimed): once the status of a pipeline is SUCCESS, WARNING or FAILED
\* no later operation changes it.
C3_TerminalIsFinal ==
    [][\A p \in Pipelines :
          metrics[p].status \in Terminal => metrics'[p].status = metrics[p].status]_vars

\* C3 (amended): the status changes only inside run(): the entry of run() sets
\* it to RUNNING whatever it was (also SUCCESS, WARNING or FAILED of an earlier
\* run), from RUNNING it moves only to SUCCESS, WARNING or FAILED while run()
\* executes, and no builder call or get_metrics() changes it.
C3_StatusMoves ==
    [][\A p \in Pipelines :
          metrics'[p].status # metrics[p].status
              => \/ /\ Quiet(p) /\ pc'[p] = "extract"
                    /\ metrics'[p].status = "RUNNING"
                 \/ /\ ~Quiet(p)
                    /\ metrics[p].status = "RUNNING"
                    /\ metrics'[p].status \in Terminal]_vars

\* A run() has been entered on a pipeline whose earlier run ended in a terminal
\* status (end_time is set only by a finished run).
C3_Witness ==
    \E p \in Pipelines :
        /\ pc[p] = "extract"
        /\ metrics[p].status = "RUNNING"
        /\ metrics[p].end_time # NoTime

\* C4: when the extract returns a dataset with zero rows, run() returns False
\* with status WARNING, no step is applied and load is not called in that run.
C4_EmptyExtractionWarns ==
    \A p \in Pipelines :
        Returned(p) /\ log[p].extract = 0
            => /\ ret[p] = "false"
               /\ metrics[p].status = "WARNING"
               /\ log[p].applied = 0
               /\ log[p].load = -1

\* A run() with an empty extraction has returned on a pipeline that has steps
\* and a target.
C4_Witness ==
    \E p \in Pipelines :
        /\ Returned(p) /\ log[p].extract = 0
        /\ Len(steps[p]) > 0 /\ target_connector[p] # None

\* C5 (as claimed): after a run() whose extract returned zero rows, rows_loaded
\* is 0, also after earlier runs of the same pipeline.
C5_EmptyRunLoadsNothing ==
    \A p \in Pipelines :
        Returned(p) /\ log[p].extract = 0 => metrics[p].rows_loaded = 0

\* C6 (as claimed): after a run() whose extract returned a dataset,
\* rows_extracted is the row count of that dataset (0 when it has no rows).
C6_RowsExtractedIsExtractCount ==
    \A p \in Pipelines :
        Returned(p) /\ log[p].extract >= 0 => metrics[p].rows_extracted = log[p].extract

\* C7: when a target connector is set and its load returns False (also because
\* the target could not connect), run() returns False and the status is FAILED.
C7_LoadFalseFails ==
    \A p \in Pipelines :
        Returned(p) /\ log[p].load >= 0 /\ ~log[p].load_ok /\ ~log[p].raised
            => ret[p] = "false" /\ metrics[p].status = "FAILED"

\* The load of a SQLite target that could not connect has returned False.
C7_Witness ==
    \E p \in Pipelines :
        /\ Returned(p) /\ log[p].load >= 0 /\ ~log[p].load_ok /\ ~log[p].raised
        /\ target_connector[p] = "sqlite" /\ ~connection["sqlite"]

\* C8: when a target connector is set and its load returns True, run() returns
\* True, the status is SUCCESS and rows_loaded is the row count of the dataset
\* handed to load (the dataset after the last step), not rows_extracted.
C8_LoadTrueSucceeds ==
    \A p \in Pipelines :
        Returned(p) /\ log[p].load_ok
            => /\ ret[p] = "true"
               /\ metrics[p].status = "SUCCESS"
               /\ log[p].applied = Len(steps[p])
               /\ metrics[p].rows_loaded = log[p].load

\* A load has returned True for a dataset whose row count the steps have
\* changed.
C8_Witness ==
    \E p \in Pipelines :
        /\ Returned(p) /\ log[p].load_ok
        /\ metrics[p].rows_loaded # metrics[p].rows_extracted
        /\ metrics[p].rows_extracted = log[p].extract

\* C9: every run() sets end_time before it returns, on every exit path, and
\* end_time is not earlier than the start_time of the same call.  (The clock is
\* read at entry and in the finally block; at return end_time is the last
\* reading of the clock, so it was set by this call.)
C9_EndTimeSet ==
    \A p \in Pipelines :
        Returned(p)
            => /\ metrics[p].end_time # NoTime
               /\ metrics[p].end_time = now
               /\ metrics[p].start_time # NoTime
               /\ metrics[p].end_time >= metrics[p].start_time

\* A second run() of a pipeline has returned through the exception handler.
C9_Witness ==
    \E p \in Pipelines :
        /\ Returned(p) /\ log[p].raised
        /\ metrics[p].start_time > 1 + ReadsPerRun

\* C10: run() does not raise: whatever extract, the steps and load do (return
\* a failure value, raise an exception, reject their parameters), run() returns
\* True or False, and a raise or a failed load shows as status FAILED, a False
\* return as status WARNING or FAILED.
C10_NeverRaises ==
    \A p \in Pipelines :
        Returned(p)
            => /\ ret[p] \in {"true", "false"}
               /\ (log[p].raised \/ (log[p].load >= 0 /\ ~log[p].load_ok)
                      => ret[p] = "false" /\ metrics[p].status = "FAILED")
               /\ (ret[p] = "false" => metrics[p].status \in {"WARNING", "FAILED"})

\* A run() has returned after its target's load raised.
C10_Witness ==
    \E p \in Pipelines :
        Returned(p) /\ log[p].raised /\ log[p].load >= 0

\* The steps ss applied one after another to df, each to the result of the one
\* before (none of them raising).
RECURSIVE ApplyAll(_, _)
ApplyAll(ss, df) ==
    IF Len(ss) = 0 THEN df ELSE ApplyAll(Tail(ss), ApplyStep(Head(ss), df).df)

\* C11: in a run with a non-empty extraction, the dataset handed to the
\* target's load is the extracted dataset with the steps of the pipeline applied
\* in the order they were appended, each exactly once, each to the result of the
\* step before.
C11_LoadGetsStepsInOrder ==
    [][\A p \in Pipelines :
          log[p].load = -1 /\ log'[p].load >= 0
              => /\ log[p].extract >= 1
                 /\ log[p].applied = Len(steps[p])
                 /\ data[p] = ApplyAll(steps[p], log[p].input)
                 /\ log'[p].load = DFLen(data[p])]_vars

\* A load has returned True for two extracted rows that an aggregate step and
\* then a filter step have reduced to one.
C11_Witness ==
    \E p \in Pipelines :
        /\ Returned(p) /\ log[p].load_ok
        /\ Len(steps[p]) = 2
        /\ steps[p][1].type = "aggregate" /\ steps[p][2].type = "filter"
        /\ steps[p][2].condition.col = "v"
        /\ metrics[p].rows_extracted = 2 /\ metrics[p].rows_loaded = 1

\* What the caller sees of pipeline p.
Facade(p) == <<source_connector[p], target_connector[p], steps[p], metrics[p],
               pc[p], ret[p], view[p]>>

\* A builder call on p has just returned: a step on p that ends idle without a
\* get_metrics() result (get_metrics leaves a view, run() does not end idle).
BuilderStep(p) ==
    /\ Quiet(p) /\ pc'[p] = "idle" /\ ~view'[p].held
    /\ Facade(p)' # Facade(p)

\* C12: each builder call returns the pipeline it was called on and leaves the
\* metrics and the connectors' state alone; set_source changes only the source
\* reference, set_target only the target reference, and each add_* appends
\* exactly one step after the steps already there, which stay as they are (so
\* calls of set_source/set_target commute with the add_* calls).
C12_BuilderFrame ==
    [][\A p \in Pipelines :
          BuilderStep(p)
              => /\ ret'[p] = p
                 /\ metrics' = metrics /\ connection' = connection /\ now' = now
                 /\ \/ /\ target_connector'[p] = target_connector[p]
                       /\ steps'[p] = steps[p]
                    \/ /\ source_connector'[p] = source_connector[p]
                       /\ steps'[p] = steps[p]
                    \/ /\ source_connector'[p] = source_connector[p]
                       /\ target_connector'[p] = target_connector[p]
                       /\ Len(steps'[p]) = Len(steps[p]) + 1
                       /\ SubSeq(steps'[p], 1, Len(steps[p])) = steps[p]]_vars

\* A second, different step has been appended to a pipeline that has run and
\* has both connectors.
C12_Witness ==
    \E p \in Pipelines :
        /\ pc[p] = "idle" /\ ret[p] = p
        /\ Len(steps[p]) = 2 /\ steps[p][1] # steps[p][2]
        /\ source_connector[p] # None /\ target_connector[p] # None
        /\ metrics[p].status = "SUCCESS"

\* ---- runs of pipelines whose step list holds failing steps
\* The step dictionaries the builder calls make, failing ones included.
StepChoices ==
    {[type |-> "filter", condition |-> c] : c \in Conditions}
    \cup {[type |-> "aggregate", group_by |-> a.group_by, agg_config |-> a.agg_config] :
              a \in AggSpecs \cup BadAggSpecs}
    \cup {[type |-> "transform", function |-> "dup"]}

\* A pipeline built with a source, any target and any steps, before its runs.
InitBuilt ==
    /\ metrics = [p \in Pipelines |-> InitMetrics]
    /\ connection = [c \in Connectors |-> FALSE]
    /\ now = 1
    /\ pc = [p \in Pipelines |-> "idle"]
    /\ data = [p \in Pipelines |-> EmptyDF]
    /\ idx = [p \in Pipelines |-> 1]
    /\ ret = [p \in Pipelines |-> "none"]
    /\ log = [p \in Pipelines |-> InitLog]
    /\ view = [p \in Pipelines |-> NoView]
    /\ probe = NoProbe
    /\ store = [c \in ConnectorTypes |-> Absent]
    /\ io = NoIO
    /\ handles = [c \in ConnectorTypes |-> NoHandles]
    /\ fw = InitFramework
    /\ \E p \in Driven :
          \E src \in Connectors, tgt \in Connectors \cup {None},
             ss \in SeqsUpTo(StepChoices, MaxSteps) :
             /\ source_connector = [q \in Pipelines |-> IF q = p THEN src ELSE None]
             /\ target_connector = [q \in Pipelines |-> IF q = p THEN tgt ELSE None]
             /\ steps = [q \in Pipelines |-> IF q = p THEN ss ELSE <<>>]

NextRun ==
    \/ \E p \in Driven : RunStart(p)
    \/ \E p \in Driven : RunExtract(p)
    \/ \E p \in Driven : RunStep(p)
    \/ \E p \in Driven : RunNoTarget(p)
    \/ \E p \in Driven : RunLoad(p)

SpecRun == InitBuilt /\ [][NextRun]_vars

\* The evaluation of a Filter or Aggregate step on df fails (the except branch
\* of filter_data / aggregate_data is taken).
StepFails(step, df) ==
    \/ step.type = "filter" /\ ~HasCol(df, step.condition.col)
    \/ step.type = "aggregate" /\ ~AggValid(df, step.group_by, step.agg_config)

\* C13: a Filter or Aggregate step whose evaluation fails leaves the working
\* dataset as it was and the loop goes on to the next step (and then the load)
\* with the metrics untouched; a run in which nothing raised and no load
\* returned False has applied every step, returned True and is not FAILED.
C13_FailedStepPassesThrough ==
    /\ [][\A p \in Pipelines :
             pc[p] = "transform" /\ idx[p] <= Len(steps[p]) /\ StepFails(NextStep(p), data[p])
                 => /\ data'[p] = data[p]
                    /\ idx'[p] = idx[p] + 1
                    /\ pc'[p] = "transform"
                    /\ metrics'[p] = metrics[p]]_vars
    /\ [](\A p \in Pipelines :
             Returned(p) /\ log[p].extract >= 1 /\ ~log[p].raised
                         /\ (log[p].load = -1 \/ log[p].load_ok)
                 => /\ log[p].applied = Len(steps[p])
                    /\ ret[p] = "true"
                    /\ metrics[p].status # "FAILED")

\* A load has returned True in a run whose steps were a failing filter and a
\* failing aggregation, with the rows as extracted.
C13_Witness ==
    \E p \in Pipelines :
        /\ Returned(p) /\ log[p].load_ok /\ Len(steps[p]) = 2
        /\ steps[p][1].type = "filter" /\ steps[p][1].condition.col = "zz"
        /\ steps[p][2].type = "aggregate" /\ steps[p][2].group_by = <<"zz">>
        /\ metrics[p].rows_loaded = metrics[p].rows_extracted
        /\ metrics[p].rows_loaded = 2

\* ---- the DataTransformer called on its own
\* Rows with a missing key or a missing value.
NullRow == {<<Null, 1>>, <<1, Null>>}
\* The datasets the transformer is given.
ProbeFrames ==
    {[cols |-> TableCols, rows |-> r] : r \in SeqsUpTo(TableRow \cup NullRow, MaxRows)}
    \cup {EmptyDF}
\* Largest constant of a filter condition.
MaxGt == 2
\* The filter conditions "<col> > <gt>", on a column of the table or on none.
ProbeConditions == {[col |-> c, gt |-> g] : c \in {"k", "v", "zz"}, g \in 0..MaxGt}

\* The transformer is about to be called with one of the datasets.
InitTransformer ==
    /\ source_connector = [p \in Pipelines |-> None]
    /\ target_connector = [p \in Pipelines |-> None]
    /\ steps = [p \in Pipelines |-> <<>>]
    /\ metrics = [p \in Pipelines |-> InitMetrics]
    /\ connection = [c \in Connectors |-> FALSE]
    /\ now = 1
    /\ pc = [p \in Pipelines |-> "idle"]
    /\ data = [p \in Pipelines |-> EmptyDF]
    /\ idx = [p \in Pipelines |-> 1]
    /\ ret = [p \in Pipelines |-> "none"]
    /\ log = [p \in Pipelines |-> InitLog]
    /\ view = [p \in Pipelines |-> NoView]
    /\ \E df \in ProbeFrames : probe = [NoProbe EXCEPT !.df = df]
    /\ store = [c \in ConnectorTypes |-> Absent]
    /\ io = NoIO
    /\ handles = [c \in ConnectorTypes |-> NoHandles]
    /\ fw = InitFramework

\* transformer.filter_data(df, cond)
FilterData(df, cond) ==
    /\ probe.op = "none" /\ probe.df = df
    /\ probe' = [op |-> "filter", df |-> df, cond |-> cond, out |-> filter_data(df, cond)]
    /\ UNCHANGED <<pipelineVars, connection, store, io, handles, fw>>

\* The aggregations the transformer is given, valid or not.
ProbeAggSpecs ==
    {[group_by |-> g, agg_config |-> <<a>>] :
        g \in {<<"k">>, <<"v">>, <<"k", "v">>, <<"zz">>},
        a \in {<<"v", "sum">>, <<"v", "count">>, <<"k", "count">>}}

\* transformer.aggregate_data(df, group_by, agg_config)
AggregateData(df, a) ==
    /\ probe.op = "none" /\ probe.df = df
    /\ probe' = [op |-> "aggregate", df |-> df, group_by |-> a.group_by,
                 agg_config |-> a.agg_config,
                 out |-> aggregate_data(df, a.group_by, a.agg_config)]
    /\ UNCHANGED <<pipelineVars, connection, store, io, handles, fw>>

\* ---- clean_data
\* The frame with the dtype of each column: a column with a missing value is a
\* float column, the others are integer columns.
Typed(df) ==
    [cols |-> df.cols, rows |-> df.rows,
     dtypes |-> [i \in 1..Len(df.cols) |->
                   IF \E n \in 1..Len(df.rows) : df.rows[n][i] = Null THEN "float" ELSE "int"]]

\* cleaned.drop_duplicates(): the first of equal rows is kept.
RECURSIVE FirstOccurrences(_)
FirstOccurrences(rows) ==
    IF Len(rows) = 0 THEN <<>>
    ELSE LET init == SubSeq(rows, 1, Len(rows) - 1)
             last == rows[Len(rows)]
         IN  IF \E n \in 1..Len(init) : init[n] = last
             THEN FirstOccurrences(init)
             ELSE Append(FirstOccurrences(init), last)
DropDuplicates(df) == [df EXCEPT !.rows = FirstOccurrences(df.rows)]

\* cleaned.fillna(c): every missing cell becomes c.
FillNa(df, c) ==
    [df EXCEPT !.rows = [n \in 1..Len(df.rows) |->
                            [i \in 1..Len(df.rows[n]) |->
                                IF df.rows[n][i] = Null THEN c ELSE df.rows[n][i]]]]

\* cleaned.dropna(): the rows with a missing cell go.
DropNa(df) ==
    LET Whole(row) == \A i \in 1..Len(row) : row[i] # Null
    IN  [df EXCEPT !.rows = SelectSeq(df.rows, Whole)]

\* Python truth of an option value: None (Null), 0, '' and False are false; 0
\* stands for the three constants that are false.
Truthy(x) == x # Null /\ x # 0

\* cleaned[col] = cleaned[col].astype(dtype) for the pairs of convert_types,
\* in order: a column the frame does not have is skipped; a column with a
\* missing value cannot become an integer column (astype raises), and a dtype
\* that does not exist raises.
RECURSIVE ConvertTypes(_, _)
ConvertTypes(df, pairs) ==
    IF Len(pairs) = 0 THEN [raised |-> FALSE, df |-> df]
    ELSE LET col == pairs[1][1]
             dtype == pairs[1][2]
         IN  IF ~HasCol(df, col) THEN ConvertTypes(df, Tail(pairs))
             ELSE LET i == ColIndex(df, col)
                      hasNull == \E n \in 1..Len(df.rows) : df.rows[n][i] = Null
                  IN  IF dtype \notin {"int", "float"} \/ (dtype = "int" /\ hasNull)
                      THEN [raised |-> TRUE, df |-> df]
                      ELSE ConvertTypes([df EXCEPT !.dtypes[i] = dtype], Tail(pairs))

\* The frame clean_data has made when it comes to convert_types.
BeforeConvert(df, o) ==
    LET a == IF o.remove_duplicates THEN DropDuplicates(df) ELSE df
    IN  IF Truthy(o.fill_na) THEN FillNa(a, o.fill_na)
        ELSE IF o.drop_na THEN DropNa(a)
        ELSE a

\* DataTransformer.clean_data(data, **options); on an exception the data it
\* was given is returned.
clean_data(df, o) ==
    LET c == ConvertTypes(BeforeConvert(df, o), o.convert_types)
    IN  IF c.raised THEN df ELSE c.df

\* The options: fill_na is Null when it is not given.
NoOptions == [remove_duplicates |-> FALSE, fill_na |-> Null, drop_na |-> FALSE,
              convert_types |-> <<>>]
FillConstants == {0, 5}
CleanOptions ==
    [remove_duplicates : BOOLEAN, fill_na : {Null} \cup FillConstants, drop_na : BOOLEAN,
     convert_types : {<<>>, <<<<"v", "int">>>>, <<<<"v", "float">>>>, <<<<"zz", "int">>>>}]

\* transformer.clean_data(df, **o)
CleanData(df, o) ==
    /\ probe.op = "none" /\ probe.df = df
    /\ probe' = [op |-> "clean", df |-> df, options |-> o, out |-> clean_data(Typed(df), o)]
    /\ UNCHANGED <<pipelineVars, connection, store, io, handles, fw>>

\* ---- add_computed_columns
\* The expressions "<a> + <b>" over two columns; the sum of a missing value is
\* missing.
ExprValid(df, e) == HasCol(df, e.a) /\ HasCol(df, e.b)
ExprValue(df, e, row) ==
    LET x == row[ColIndex(df, e.a)]
        y == row[ColIndex(df, e.b)]
    IN  IF x = Null \/ y = Null THEN Null ELSE x + y

\* result[col_name] = result.eval(expression): a new column at the end.
WithColumn(df, name, e) ==
    [cols |-> Append(df.cols, name),
     rows |-> [n \in 1..Len(df.rows) |-> Append(df.rows[n], ExprValue(df, e, df.rows[n]))]]

\* The loop over computations.items(), each expression evaluated on the result
\* so far; an expression that cannot be evaluated raises.
RECURSIVE ComputeAll(_, _)
ComputeAll(df, comps) ==
    IF Len(comps) = 0 THEN [raised |-> FALSE, df |-> df]
    ELSE IF ~ExprValid(df, comps[1][2]) THEN [raised |-> TRUE, df |-> df]
    ELSE ComputeAll(WithColumn(df, comps[1][1], comps[1][2]), Tail(comps))

\* DataTransformer.add_computed_columns(data, computations); on an exception
\* the data it was given is returned.
add_computed_columns(df, comps) ==
    LET r == ComputeAll(df, comps) IN IF r.raised THEN df ELSE r.df

\* The (column name, expression) pairs: a sum of two columns of the table, a
\* sum that names a missing column, a sum over the column s computed before.
ComputePairs == {<<"s", [a |-> "k", b |-> "v"]>>, <<"t", [a |-> "zz", b |-> "v"]>>,
                 <<"u", [a |-> "s", b |-> "v"]>>}
\* Most pairs of one call.
MaxPairs == 2
ProbeComputations == SeqsUpTo(ComputePairs, MaxPairs)

\* transformer.add_computed_columns(df, comps)
AddComputedColumns(df, comps) ==
    /\ probe.op = "none" /\ probe.df = df
    /\ probe' = [op |-> "compute", df |-> df, computations |-> comps,
                 out |-> add_computed_columns(df, comps)]
    /\ UNCHANGED <<pipelineVars, connection, store, io, handles, fw>>

NextTransformer ==
    \/ \E df \in ProbeFrames, c \in ProbeConditions : FilterData(df, c)
    \/ \E df \in ProbeFrames, a \in ProbeAggSpecs : AggregateData(df, a)
    \/ \E df \in ProbeFrames, o \in CleanOptions : CleanData(df, o)
    \/ \E df \in ProbeFrames, comps \in ProbeComputations : AddComputedColumns(df, comps)

SpecTransformer == InitTransformer /\ [][NextTransformer]_vars

\* s is t with some of its elements left out (the order kept).
RECURSIVE IsSubSeq(_, _)
IsSubSeq(s, t) ==
    IF Len(s) = 0 THEN TRUE
    ELSE IF Len(t) = 0 THEN FALSE
    ELSE IF Head(s) = Head(t) THEN IsSubSeq(Tail(s), Tail(t))
    ELSE IsSubSeq(s, Tail(t))

\* C14: for every dataset and every filter condition, valid or not, the
\* filtered dataset has no more rows than the dataset, has its columns, holds
\* only rows of it, and filtering it again with the same condition gives it
\* back.
C14_FilterShrinksAndIsIdempotent ==
    probe.op = "filter"
        => /\ DFLen(probe.out) <= DFLen(probe.df)
           /\ probe.out.cols = probe.df.cols
           /\ IsSubSeq(probe.out.rows, probe.df.rows)
           /\ filter_data(probe.out, probe.cond) = probe.out

\* A valid condition has kept one of two rows and dropped the one whose tested
\* cell is missing.
C14_Witness ==
    /\ probe.op = "filter" /\ probe.cond.col = "v" /\ probe.cond.gt = 0
    /\ DFLen(probe.df) = 2 /\ DFLen(probe.out) = 1
    /\ probe.df.rows[2][2] = Null

\* The combinations of values the columns group_by take in the rows of df.
KeyCombinations(df, group_by) ==
    {[i \in 1..Len(group_by) |-> df.rows[n][ColIndex(df, group_by[i])]] : n \in 1..Len(df.rows)}

\* C15 (as claimed): an aggregation that evaluates without error has exactly
\* one row per distinct combination of values of the group_by columns that
\* occurs in the dataset, and its columns are the group_by columns together
\* with the columns named in the aggregation spec.
C15_OneRowPerKeyCombination ==
    probe.op = "aggregate" /\ AggValid(probe.df, probe.group_by, probe.agg_config)
        => /\ DFLen(probe.out) = Cardinality(KeyCombinations(probe.df, probe.group_by))
           /\ \A key \in KeyCombinations(probe.df, probe.group_by) :
                 Cardinality({n \in 1..DFLen(probe.out) :
                                 SubSeq(probe.out.rows[n], 1, Len(key)) = key}) = 1
           /\ {probe.out.cols[i] : i \in 1..Len(probe.out.cols)}
                 = {probe.group_by[i] : i \in 1..Len(probe.group_by)}
                   \cup {probe.agg_config[j][1] : j \in 1..Len(probe.agg_config)}

\* ---- the connectors called on their own: load, then extract
\* What a destination can hold before the load: nothing, or a table / file
\* written earlier.
StoreContents == {Absent} \cup {[exists |-> TRUE, df |-> f] : f \in BackendFrames}

\* Mutant of SQLiteWrite: the table is replaced (if_exists='replace').
SQLiteWrite_Replace(content, df) ==
    IF Len(df.cols) = 0 THEN [ok |-> FALSE, content |-> content]
    ELSE [ok |-> TRUE, content |-> [exists |-> TRUE, df |-> df]]

\* data.to_sql(table_name, connection, if_exists='append', index=False): the
\* table is created when it does not exist, else the rows are added to the
\* ones it holds; a frame without columns or with other columns than the table
\* makes to_sql raise.
SQLiteWrite(content, df) ==
    IF Len(df.cols) = 0 THEN [ok |-> FALSE, content |-> content]
    ELSE IF ~content.exists THEN [ok |-> TRUE, content |-> [exists |-> TRUE, df |-> df]]
    ELSE IF content.df.cols # df.cols THEN [ok |-> FALSE, content |-> content]
    ELSE [ok |-> TRUE,
          content |-> [exists |-> TRUE,
                       df |-> [cols |-> df.cols, rows |-> content.df.rows \o df.rows]]]

\* data.to_parquet(file_path, ...) / data.to_json(file_path, ...): the file is
\* written anew.
FileWrite(content, df) == [ok |-> TRUE, content |-> [exists |-> TRUE, df |-> df]]

Write(c, content, df) == IF c = "sqlite" THEN SQLiteWrite(content, df) ELSE FileWrite(content, df)

\* What extract reads back: the table (SELECT * FROM table), the Parquet file,
\* or the records of the JSON file, which for a frame without rows is the
\* empty list and reads as a frame without columns; a missing table or file
\* gives pd.DataFrame().
Read(c, content) ==
    IF ~content.exists THEN EmptyDF
    ELSE IF c = "json" /\ Len(content.df.rows) = 0 THEN EmptyDF
    ELSE content.df

\* One connector with its destination in some state, before the calls.
InitStore ==
    /\ source_connector = [p \in Pipelines |-> None]
    /\ target_connector = [p \in Pipelines |-> None]
    /\ steps = [p \in Pipelines |-> <<>>]
    /\ metrics = [p \in Pipelines |-> InitMetrics]
    /\ connection = [c \in Connectors |-> FALSE]
    /\ now = 1
    /\ pc = [p \in Pipelines |-> "idle"]
    /\ data = [p \in Pipelines |-> EmptyDF]
    /\ idx = [p \in Pipelines |-> 1]
    /\ ret = [p \in Pipelines |-> "none"]
    /\ log = [p \in Pipelines |-> InitLog]
    /\ view = [p \in Pipelines |-> NoView]
    /\ probe = NoProbe
    /\ \E c \in ConnectorTypes, content \in StoreContents :
          /\ store = [x \in ConnectorTypes |-> IF x = c THEN content ELSE Absent]
          /\ io = [NoIO EXCEPT !.c = c]
    /\ handles = [c \in ConnectorTypes |-> NoHandles]
    /\ fw = InitFramework

\* connector.load(df, dest) with the default options: it returns True when the
\* connector is connected and the write went through, False otherwise.
StoreLoad(c, df) ==
    /\ io.op = "none" /\ io.c = c
    /\ LET conn == IF c \in Connectors THEN connection[c] ELSE FALSE IN
       \E r \in load(c, conn, df) :
          /\ ~r.raised
          /\ LET w == Write(c, store[c], df) IN
             /\ r.ok => w.ok
             /\ store' = [store EXCEPT ![c] = IF r.ok THEN w.content ELSE @]
             /\ io' = [io EXCEPT !.op = "loaded", !.before = store[c], !.df = df, !.ok = r.ok]
          /\ connection' = IF c \in Connectors THEN [connection EXCEPT ![c] = r.connection]
                           ELSE connection
    /\ UNCHANGED <<pipelineVars, probe, handles, fw>>

\* connector.extract(dest) after a load that returned True, the backend
\* answering without fault.
StoreExtract(c) ==
    /\ io.op = "loaded" /\ io.ok /\ io.c = c
    /\ io' = [io EXCEPT !.op = "read", !.out = Read(c, store[c])]
    /\ UNCHANGED <<pipelineVars, connection, probe, store, handles, fw>>

NextStore ==
    \/ \E c \in ConnectorTypes, df \in BackendFrames : StoreLoad(c, df)
    \/ \E c \in ConnectorTypes : StoreExtract(c)

SpecStore == InitStore /\ [][NextStore]_vars

\* C16 (as claimed): for each connector and whatever the destination held, a
\* load with default options that returned True followed by an extract of the
\* same destination gives the rows that were loaded: as many, with the same
\* values.
C16_RoundTrip ==
    io.op = "read" => DFLen(io.out) = DFLen(io.df) /\ io.out.rows = io.df.rows

\* C16 (amended): after a load with default options that returned True, the
\* extract of a Parquet or JSON destination gives the rows that were loaded,
\* whatever the file held before; the extract of a SQLite table gives the rows
\* the table held before followed by the rows that were loaded, which is the
\* loaded dataset only when the table did not exist or had no rows.
C16_RoundTripOrAppend ==
    io.op = "read"
        => IF io.c = "sqlite"
           THEN /\ io.out.rows = io.before.df.rows \o io.df.rows
                /\ (io.out.rows = io.df.rows <=> DFLen(io.before.df) = 0)
           ELSE io.out.rows = io.df.rows

\* A row has been loaded into a SQLite table that held one row, and the
\* extract has returned both.
C16_Witness ==
    /\ io.op = "read" /\ io.c = "sqlite"
    /\ DFLen(io.before.df) = 1 /\ DFLen(io.df) = 1 /\ DFLen(io.out) = 2

\* ---- the framework: its two dictionaries and run_pipeline
\* Mutant of Bind: an entry that exists is kept (setdefault).
Bind_KeepsExisting(m, name, x) == IF m[name] # None THEN m ELSE [m EXCEPT ![name] = x]

\* self.connectors[name] = connector / self.pipelines[name] = pipeline
Bind(m, name, x) == [m EXCEPT ![name] = x]

\* register_connector(name, connector)
register_connector(name, c) ==
    /\ fw.call = None
    /\ fw' = [fw EXCEPT !.connectors = Bind(@, name, c),
                        !.op = "register_connector", !.name = name, !.arg = c, !.ret = "none"]
    /\ UNCHANGED <<pipelineVars, connection, probe, store, io, handles>>

\* create_pipeline(name): pipeline = ETLPipeline(name), a new object in its
\* constructed state, is entered under name and returned.
create_pipeline(name) ==
    /\ fw.call = None
    /\ \E p \in Pipelines \ fw.made :
          /\ source_connector' = [source_connector EXCEPT ![p] = None]
          /\ target_connector' = [target_connector EXCEPT ![p] = None]
          /\ steps' = [steps EXCEPT ![p] = <<>>]
          /\ metrics' = [metrics EXCEPT ![p] = InitMetrics]
          /\ fw' = [fw EXCEPT !.pipelines = Bind(@, name, p), !.made = @ \cup {p},
                              !.op = "create_pipeline", !.name = name, !.arg = None, !.ret = p]
    /\ UNCHANGED <<connection, now, pc, data, idx, ret, log, view, probe, store, io, handles>>

\* Mutant of NotFound: a missing name is reported as a successful run.
NotFound_True(f, name) ==
    [f EXCEPT !.op = "run_pipeline", !.name = name, !.arg = None, !.ret = "true"]

\* if name not in self.pipelines: return False
NotFound(f, name) ==
    [f EXCEPT !.op = "run_pipeline", !.name = name, !.arg = None, !.ret = "false"]

\* run_pipeline(name) for a name that is not in self.pipelines.
RunPipelineMissing(name) ==
    /\ fw.call = None
    /\ fw.pipelines[name] = None
    /\ fw' = NotFound(fw, name)
    /\ UNCHANGED <<pipelineVars, connection, probe, store, io, handles>>

\* run_pipeline(name) for a name in self.pipelines: the pipeline is looked up
\* and its run() is about to be called.
RunPipelineEnter(name) ==
    /\ fw.call = None
    /\ fw.pipelines[name] # None
    /\ LET p == fw.pipelines[name] IN
          /\ Quiet(p)
          /\ now + ReadsPerRun <= MaxTime
          /\ Resume(p, "none")
          /\ view' = [view EXCEPT ![p] = NoView]
    /\ fw' = [fw EXCEPT !.call = name, !.entered = now,
                        !.op = "run_pipeline", !.name = name, !.arg = None, !.ret = "none"]
    /\ UNCHANGED <<source_connector, target_connector, steps, metrics, connection, now,
                   data, idx, probe, store, io, handles>>

\* The pipeline run_pipeline is running.
Running == fw.pipelines[fw.call]

\* return self.pipelines[name].run(**kwargs): run() has returned and its value
\* is passed on.
RunPipelineReturn(name) ==
    /\ fw.call = name
    /\ Returned(Running)
    /\ fw' = [fw EXCEPT !.call = None, !.ret = ret[Running]]
    /\ UNCHANGED <<pipelineVars, connection, probe, store, io, handles>>

\* The connector the client gives its pipelines as source.
FrameworkSources == {"parquet"}

\* The calls of a client of the framework: outside run_pipeline it calls the
\* framework and configures the pipelines create_pipeline returned; inside, the
\* run() of the pipeline that was looked up executes.
NextFramework ==
    \/ \E n \in Names, c \in Connectors : register_connector(n, c)
    \/ \E n \in Names : create_pipeline(n)
    \/ \E n \in Names : RunPipelineMissing(n)
    \/ \E n \in Names : RunPipelineEnter(n)
    \/ \E n \in Names : RunPipelineReturn(n)
    \/ \E p \in fw.made, c \in FrameworkSources : fw.call = None /\ SetSource(p, c)
    \/ fw.call # None /\ pc[Running] = "idle" /\ RunStart(Running)
    \/ fw.call # None /\ RunNoSource(Running)
    \/ fw.call # None /\ RunExtract(Running)
    \/ fw.call # None /\ RunNoTarget(Running)

SpecFramework == Init /\ [][NextFramework]_vars

\* The two dictionaries and the set of pipeline objects are the same after the
\* step.
RegistryUnchanged ==
    /\ fw'.pipelines = fw.pipelines
    /\ fw'.connectors = fw.connectors
    /\ fw'.made = fw.made

\* C17: run_pipeline(name) for a name that is not registered returns False and
\* changes nothing: no pipeline is made or entered, no metrics and no connector
\* changes.  For a registered name nothing but the pipeline under that name
\* changes while the call lasts, and the call returns when the run() of that
\* pipeline has returned, with its value; the clock has then been read exactly
\* twice since the call was entered, at the entry and at the exit of that one
\* run().
C17_RunPipelineDelegates ==
    [][/\ \A n \in Names :
             fw.call = None /\ fw'.call = None /\ fw' # fw
                            /\ fw'.op = "run_pipeline" /\ fw'.name = n
                 => /\ fw.pipelines[n] = None
                    /\ fw'.ret = "false"
                    /\ RegistryUnchanged
                    /\ UNCHANGED <<pipelineVars, connection, store, handles>>
       /\ fw.call = None /\ fw'.call # None
             => /\ fw.pipelines[fw'.call] # None
                /\ RegistryUnchanged
                /\ metrics' = metrics /\ connection' = connection
       /\ fw.call # None
             => /\ RegistryUnchanged
                /\ \A q \in Pipelines \ {Running} : Facade(q)' = Facade(q)
                /\ fw'.call = None
                      => /\ Returned(Running)
                         /\ fw'.ret = ret[Running]
                         /\ fw'.ret \in {"true", "false"}
                         /\ UNCHANGED <<pipelineVars, connection>>
                         /\ metrics[Running].start_time = Tick(fw.entered)
                         /\ metrics[Running].end_time = Tick(Tick(fw.entered))
                         /\ now = metrics[Running].end_time]_vars

\* run_pipeline has returned True for one name after it had returned False for
\* the pipeline under the other name, which has no source.
C17_Witness ==
    /\ fw.op = "run_pipeline" /\ fw.call = None /\ fw.ret = "true"
    /\ \E n \in Names \ {fw.name} :
          /\ fw.pipelines[n] # None
          /\ metrics[fw.pipelines[n]].status = "FAILED"
          /\ metrics[fw.pipelines[n]].end_time < metrics[fw.pipelines[fw.name]].start_time

\* C18: create_pipeline(name) makes a new pipeline (status PENDING, no source,
\* no target, no steps), returns it and enters it under name, also when name
\* was taken: the pipeline that was under name stays as it is but is under no
\* name any more.  register_connector(name, c) enters c under name.  Both
\* leave the entries under the other names, the other dictionary and the other
\* pipelines alone.
C18_CreateAndRegisterBind ==
    [][/\ fw'.op = "create_pipeline" /\ fw' # fw
             => LET n == fw'.name
                    p == fw'.pipelines[n]
                IN  /\ p # None /\ p \notin fw.made
                    /\ fw'.ret = p
                    /\ metrics'[p] = InitMetrics
                    /\ source_connector'[p] = None /\ target_connector'[p] = None
                    /\ steps'[p] = <<>>
                    /\ \A m \in Names \ {n} : fw'.pipelines[m] = fw.pipelines[m]
                    /\ fw'.connectors = fw.connectors
                    /\ \A q \in Pipelines \ {p} : Facade(q)' = Facade(q)
                    /\ fw.pipelines[n] # None
                          => \A m \in Names : fw'.pipelines[m] # fw.pipelines[n]
       /\ fw'.op = "register_connector" /\ fw' # fw
             => /\ fw'.connectors[fw'.name] = fw'.arg
                /\ fw'.arg \in ConnectorTypes
                /\ \A m \in Names \ {fw'.name} : fw'.connectors[m] = fw.connectors[m]
                /\ fw'.pipelines = fw.pipelines /\ fw'.made = fw.made
                /\ UNCHANGED <<pipelineVars, connection>>]_vars

\* A second pipeline has been created under the name of a pipeline that has a
\* source and has run, and a connector has been registered over another one.
C18_Witness ==
    /\ fw.op = "create_pipeline" /\ fw.made = Pipelines
    /\ \E n \in Names, p \in Pipelines :
          /\ fw.pipelines[n] = p
          /\ \A m \in Names \ {n} : fw.pipelines[m] = None
          /\ metrics[p].status = "PENDING"
          /\ \E q \in Pipelines \ {p} :
                source_connector[q] # None /\ metrics[q].status = "WARNING"
    /\ \E n \in Names : fw.connectors[n] = "parquet"

\* C19: get_metrics() leaves the pipeline as it is and returns the metrics of
\* that moment, with a duration exactly when start_time and end_time are both
\* set, the duration being end_time minus start_time; a write of the client to
\* the returned record leaves the metrics of the pipeline, and so what the next
\* get_metrics() returns, as they were.
C19_GetMetricsIsACopy ==
    [][\A p \in Pipelines :
          /\ view'[p].held /\ view'[p] # view[p] /\ ~view'[p].changed
                => /\ view'[p].metrics = metrics[p]
                   /\ view'[p].has_duration
                         <=> metrics[p].start_time # NoTime /\ metrics[p].end_time # NoTime
                   /\ view'[p].has_duration
                         => view'[p].duration_seconds
                               = metrics[p].end_time - metrics[p].start_time
                   /\ UNCHANGED <<source_connector, target_connector, steps, metrics,
                                  connection, now, data, idx>>
          /\ view'[p].held /\ view'[p] # view[p] /\ view'[p].changed
                => /\ view'[p].metrics # view[p].metrics
                   /\ metrics' = metrics
                   /\ MetricsView(metrics'[p]) = MetricsView(metrics[p])]_vars

\* The client has written to the record get_metrics() returned after a run,
\* which holds a duration.
C19_Witness ==
    \E p \in Pipelines :
        /\ view[p].held /\ view[p].changed
        /\ view[p].has_duration /\ view[p].duration_seconds = 1
        /\ view[p].metrics.rows_loaded # metrics[p].rows_loaded

\* ---- the connectors called on their own: connect and disconnect
\* SQLiteConnector.connect: sqlite3.connect opens a new handle and
\* self.connection is bound to it, or it raises and False is returned with
\* self.connection as it was.  A handle self.connection held before loses its
\* reference without having been closed: whether and when the runtime closes
\* it is not decided by the code (reclaimed).
SQLiteConnect(c) ==
    \/ /\ handles' = [handles EXCEPT ![c].last = "connect"]
       /\ UNCHANGED connection
    \/ /\ handles[c].opened < MaxHandles
       /\ \E reclaimed \in BOOLEAN :
             LET h == handles[c].opened + 1
                 kept == IF reclaimed THEN handles[c].open \ {handles[c].current}
                         ELSE handles[c].open
             IN  handles' = [handles EXCEPT ![c] = [current |-> h, open |-> kept \cup {h},
                                                    opened |-> h, last |-> "connect",
                                                    thread |-> None]]
       /\ connection' = [connection EXCEPT ![c] = TRUE]

\* ParquetConnector.connect / JSONConnector.connect: whether the directory is
\* there; self.connection is not assigned.
FileConnect(c) ==
    /\ handles' = [handles EXCEPT ![c].last = "connect"]
    /\ UNCHANGED connection

\* connector.connect()
Connect(c) ==
    /\ IF c = "sqlite" THEN SQLiteConnect(c) ELSE FileConnect(c)
    /\ UNCHANGED <<pipelineVars, probe, store, io, fw>>

\* DataConnector.disconnect: if self.connection: close it, self.connection = None
Disconnect(c) ==
    /\ IF handles[c].current # 0
       THEN /\ handles' = [handles EXCEPT ![c].open = @ \ {handles[c].current},
                                          ![c].current = 0, ![c].last = "disconnect"]
            /\ connection' = IF c \in Connectors THEN [connection EXCEPT ![c] = FALSE]
                             ELSE connection
       ELSE /\ handles' = [handles EXCEPT ![c].last = "disconnect"]
            /\ UNCHANGED connection
    /\ UNCHANGED <<pipelineVars, probe, store, io, fw>>

NextHandles ==
    \/ \E c \in ConnectorTypes : Connect(c)
    \/ \E c \in ConnectorTypes : Disconnect(c)

SpecHandles == Init /\ [][NextHandles]_vars

\* C20 (as claimed): connect() on a connector that is connected leaves it with
\* the handle it had and opens no other, and after a disconnect() no handle
\* the connector opened is open.
C20_ConnectIsIdempotent ==
    [][\A c \in ConnectorTypes :
          /\ handles'[c].last = "connect" /\ handles[c].current # 0
                => /\ handles'[c].current = handles[c].current
                   /\ handles'[c].open = handles[c].open
                   /\ handles'[c].opened = handles[c].opened
          /\ handles'[c].last = "disconnect" /\ handles'[c] # handles[c]
                => handles'[c].open = {}]_vars

\* ---- the connectors from construction on: registered, used, disconnected
\* The connector holds a connection (self.connection is set).
Connected(c) == handles[c].current # 0

\* The handles of c after a call that leaves self.connection set (conn) or not:
\* a connector that was not connected has opened one.
AfterCall(c, conn) ==
    IF conn /\ ~Connected(c)
    THEN [handles EXCEPT ![c].current = handles[c].opened + 1,
                         ![c].open = @ \cup {handles[c].opened + 1},
                         ![c].opened = @ + 1]
    ELSE handles

\* connector.extract(...): the call returns a dataset; it has succeeded when
\* the dataset is one the backend gave (it has columns).
UseExtract(c) ==
    /\ handles[c].opened < MaxHandles
    /\ \E r \in extract(c, Connected(c)) :
          /\ ~r.raised
          /\ handles' = [AfterCall(c, r.connection) EXCEPT ![c].last = "extract"]
          /\ io' = [NoIO EXCEPT !.op = "extract", !.c = c, !.ok = Len(r.df.cols) > 0]
          /\ connection' = IF c \in Connectors THEN [connection EXCEPT ![c] = r.connection]
                           ELSE connection
    /\ UNCHANGED <<pipelineVars, probe, store, fw>>

\* connector.load(df, dest): the call returns True or False.
UseLoad(c) ==
    /\ handles[c].opened < MaxHandles
    /\ \E df \in {f \in BackendFrames : DFLen(f) = 1} : \E r \in load(c, Connected(c), df) :
          /\ ~r.raised
          /\ handles' = [AfterCall(c, r.connection) EXCEPT ![c].last = "load"]
          /\ io' = [NoIO EXCEPT !.op = "load", !.c = c, !.ok = r.ok]
          /\ connection' = IF c \in Connectors THEN [connection EXCEPT ![c] = r.connection]
                           ELSE connection
    /\ UNCHANGED <<pipelineVars, probe, store, fw>>

NextLifecycle ==
    \/ \E n \in Names, c \in ConnectorTypes : register_connector(n, c)
    \/ \E c \in ConnectorTypes : UseExtract(c)
    \/ \E c \in ConnectorTypes : UseLoad(c)
    \/ \E c \in ConnectorTypes : Disconnect(c)

SpecLifecycle == Init /\ [][NextLifecycle]_vars

\* C21 (as claimed): every connector is disconnected when constructed and
\* stays so when it is registered, is connected after an extract or a load of
\* it that succeeded, is disconnected after disconnect(), and changes from
\* disconnected to connected only in an extract or a load.
C21_ConnectorLifecycle ==
    [][\A c \in ConnectorTypes :
          /\ fw' # fw => handles' = handles
          /\ io' # io /\ io'.c = c /\ io'.ok => Connected(c)'
          /\ handles'[c].last = "disconnect" /\ handles'[c] # handles[c] => ~Connected(c)'
          /\ ~Connected(c) /\ Connected(c)' => handles'[c].last \in {"extract", "load"}]_vars

\* The extract of the run() of p that has returned failed or gave no rows: it
\* returned a dataset without rows (what the connectors return on a failure
\* they catch), or the call itself raised.
ExtractGaveNothing(p) ==
    /\ Returned(p) /\ source_connector[p] # None
    /\ log[p].extract <= 0 /\ log[p].applied = 0 /\ log[p].load = -1

\* C22 (as claimed): whatever makes the extract of the source fail (no
\* connection, a bad query, a missing table or file, a missing selector
\* parameter), run() returns False with status WARNING, as for a source
\* without rows, and never FAILED.
C22_ExtractFailureWarns ==
    \A p \in Pipelines :
        ExtractGaveNothing(p) => ret[p] = "false" /\ metrics[p].status = "WARNING"

\* One option applied by itself: clean_data with that option alone.
OnlyDuplicates(df, o) == clean_data(df, [NoOptions EXCEPT !.remove_duplicates = o.remove_duplicates])
OnlyFill(df, o) == clean_data(df, [NoOptions EXCEPT !.fill_na = o.fill_na])
OnlyDrop(df, o) == clean_data(df, [NoOptions EXCEPT !.drop_na = o.drop_na])
OnlyConvert(df, o) == clean_data(df, [NoOptions EXCEPT !.convert_types = o.convert_types])

\* C23 (as claimed): clean_data with any set of options gives what the options
\* give when each is applied by itself, one after the other (duplicates, fill,
\* drop, types), and the fill option by itself replaces every missing value by
\* the constant, whatever the constant (0, '' and False too).
C23_CleanOptionsCompose ==
    probe.op = "clean"
        => /\ probe.out = OnlyConvert(OnlyDrop(OnlyFill(OnlyDuplicates(Typed(probe.df),
                              probe.options), probe.options), probe.options), probe.options)
           /\ probe.options.fill_na # Null
                 /\ probe.options = [NoOptions EXCEPT !.fill_na = probe.options.fill_na]
                 => probe.out = FillNa(Typed(probe.df), probe.options.fill_na)

\* C24 (as claimed): when the type conversion of the options fails, the
\* dataset returned is the one the other options give: the conversion alone is
\* without effect.
C24_InvalidOptionAlone ==
    probe.op = "clean"
        /\ ConvertTypes(BeforeConvert(Typed(probe.df), probe.options),
                        probe.options.convert_types).raised
        => probe.out = clean_data(Typed(probe.df), [probe.options EXCEPT !.convert_types = <<>>])

\* The names of the pairs of comps whose expression can be evaluated, over the
\* columns cols and the columns of the valid pairs before it.
RECURSIVE ValidNames(_, _)
ValidNames(cols, comps) ==
    IF Len(comps) = 0 THEN <<>>
    ELSE LET e == comps[1][2]
             In(c) == \E i \in 1..Len(cols) : cols[i] = c
         IN  IF In(e.a) /\ In(e.b)
             THEN <<comps[1][1]>> \o ValidNames(Append(cols, comps[1][1]), Tail(comps))
             ELSE ValidNames(cols, Tail(comps))

\* C25 (as claimed): add_computed_columns returns the dataset with one more
\* column for every pair whose expression is valid and none for the others;
\* the columns it had, with their values, and the number of rows stay.
C25_InvalidExpressionsAreSkipped ==
    probe.op = "compute"
        => /\ probe.out.cols = probe.df.cols \o ValidNames(probe.df.cols, probe.computations)
           /\ DFLen(probe.out) = DFLen(probe.df)
           /\ \A n \in 1..DFLen(probe.df) :
                 SubSeq(probe.out.rows[n], 1, Len(probe.df.cols)) = probe.df.rows[n]

\* ---- two pipelines that share connectors, run one after the other
\* Two pipelines built without steps, each with a source and any target.
InitTwo ==
    /\ source_connector \in [Pipelines -> Connectors]
    /\ target_connector \in [Pipelines -> Connectors \cup {None}]
    /\ steps = [p \in Pipelines |-> <<>>]
    /\ metrics = [p \in Pipelines |-> InitMetrics]
    /\ connection = [c \in Connectors |-> FALSE]
    /\ now = 1
    /\ pc = [p \in Pipelines |-> "idle"]
    /\ data = [p \in Pipelines |-> EmptyDF]
    /\ idx = [p \in Pipelines |-> 1]
    /\ ret = [p \in Pipelines |-> "none"]
    /\ log = [p \in Pipelines |-> InitLog]
    /\ view = [p \in Pipelines |-> NoView]
    /\ probe = NoProbe
    /\ store = [c \in ConnectorTypes |-> Absent]
    /\ io = NoIO
    /\ handles = [c \in ConnectorTypes |-> NoHandles]
    /\ fw = InitFramework

\* The single-threaded client calls run() on either pipeline, one call after
\* the other.
NextSequence ==
    \/ \E p \in Pipelines : (\A q \in Pipelines : Quiet(q)) /\ RunStart(p)
    \/ \E p \in Pipelines : RunExtract(p)
    \/ \E p \in Pipelines : RunNoTarget(p)
    \/ \E p \in Pipelines : RunLoad(p)

SpecSequence == InitTwo /\ [][NextSequence]_vars

\* C26: no step of a run() disconnects a connector: a connector that is
\* connected stays connected through every run() of every pipeline, however
\* the run ends, and so serves the runs of the pipelines that share it one
\* after the other.
C26_RunNeverDisconnects ==
    [][\A c \in Connectors : connection[c] => connection'[c]]_vars

\* Two pipelines with the same SQLite source and target have run one after the
\* other over the connection the first run opened: the second run, which
\* extracted rows, has returned after its load raised.
C26_Witness ==
    \E p, q \in Pipelines :
        /\ p # q /\ source_connector[p] = "sqlite" /\ source_connector[q] = "sqlite"
        /\ target_connector[p] = "sqlite" /\ target_connector[q] = "sqlite"
        /\ metrics[p].status = "SUCCESS" /\ metrics[p].end_time < metrics[q].start_time
        /\ Returned(q) /\ log[q].extract >= 1 /\ log[q].raised
        /\ connection["sqlite"]

\* ---- a transform function that raises
\* The for loop of run() is at a transform step whose function raises on the
\* data it is given.
AtRaisingTransform(p) ==
    /\ pc[p] = "transform"
    /\ idx[p] <= Len(steps[p])
    /\ NextStep(p).type = "transform"
    /\ ApplyStep(NextStep(p), data[p]).raised

\* C27: when the function of a transform step raises during run(), the run
\* ends there: the steps after it are not applied, the target's load is not
\* called, run() returns False, the status is FAILED, and rows_extracted is
\* the row count of the extracted dataset.
C27_RaisingTransformFails ==
    [][\A p \in Pipelines :
          AtRaisingTransform(p) /\ pc'[p] # pc[p]
          => /\ pc'[p] = "done"
             /\ ret'[p] = "false"
             /\ metrics'[p].status = "FAILED"
             /\ metrics'[p].rows_extracted = DFLen(log[p].input)
             /\ log'[p].applied = idx[p] - 1
             /\ log'[p].load = -1]_vars

\* A run of a pipeline with a target, whose first of two steps is a transform
\* that raises, has returned after extracting rows.
C27_Witness ==
    \E p \in Pipelines :
        /\ Returned(p) /\ log[p].raised /\ log[p].extract >= 1
        /\ target_connector[p] # None
        /\ Len(steps[p]) = 2
        /\ steps[p][1].type = "transform" /\ TransformRaises(steps[p][1].function, EmptyDF)
        /\ log[p].applied = 0 /\ log[p].load = -1
        /\ metrics[p].rows_extracted = log[p].extract

\* ---- the two timestamps
\* C28: in every state of a pipeline in which start_time and end_time are both
\* set, the states inside a second or later run() included, end_time is not
\* earlier than start_time, so that the duration get_metrics() derives from
\* them is not negative.
C28_EndNotBeforeStart ==
    \A p \in Pipelines :
        metrics[p].start_time # NoTime /\ metrics[p].end_time # NoTime
        => /\ metrics[p].end_time >= metrics[p].start_time
           /\ MetricsView(metrics[p]).duration_seconds >= 0

\* ---- row counts of a run that only filters and aggregates
\* The step list holds filter and aggregate steps only.
OnlyFilterAndAggregate(p) ==
    \A i \in 1..Len(steps[p]) : steps[p][i].type \in {"filter", "aggregate"}

\* C29: after a run() that ends with status SUCCESS of a pipeline whose steps
\* are all filter or aggregate steps, rows_loaded is not greater than
\* rows_extracted.
C29_LoadedAtMostExtracted ==
    \A p \in Pipelines :
        Returned(p) /\ metrics[p].status = "SUCCESS" /\ OnlyFilterAndAggregate(p)
        => metrics[p].rows_loaded <= metrics[p].rows_extracted

\* A successful run whose filter step and aggregate step both took effect has
\* loaded one row of the two it extracted.
C29_Witness ==
    \E p \in Pipelines :
        /\ Returned(p) /\ metrics[p].status = "SUCCESS" /\ Len(steps[p]) = 2
        /\ steps[p][1].type = "filter" /\ steps[p][2].type = "aggregate"
        /\ AggValid([cols |-> TableCols, rows |-> <<>>], steps[p][2].group_by, steps[p][2].agg_config)
        /\ log[p].applied = 2
        /\ metrics[p].rows_extracted = 2 /\ metrics[p].rows_loaded = 1

\* ---- two pipelines run by two threads
\* Each pipeline is run once, by a thread of its own, named after it.  The
\* backends are in order: the table and the file the sources read exist, and
\* every call that reaches a backend succeeds.  The pipelines have no steps and
\* load, if at all, into a file of their own through the Parquet connector.
InitThreads ==
    /\ source_connector \in [Pipelines -> Connectors]
    /\ target_connector \in [Pipelines -> {None, "parquet"}]
    /\ steps = [p \in Pipelines |-> <<>>]
    /\ metrics = [p \in Pipelines |-> InitMetrics]
    /\ connection = [c \in Connectors |-> FALSE]
    /\ now = 1
    /\ pc = [p \in Pipelines |-> "idle"]
    /\ data = [p \in Pipelines |-> EmptyDF]
    /\ idx = [p \in Pipelines |-> 1]
    /\ ret = [p \in Pipelines |-> "none"]
    /\ log = [p \in Pipelines |-> InitLog]
    /\ view = [p \in Pipelines |-> NoView]
    /\ probe = NoProbe
    /\ \E f \in BackendFrames :
          store = [c \in ConnectorTypes |-> [exists |-> TRUE, df |-> f]]
    /\ io = NoIO
    /\ handles = [c \in ConnectorTypes |-> NoHandles]
    /\ fw = InitFramework

\* sqlite3.connect(self.db_path) is called with its defaults, so the handle
\* checks the calling thread (check_same_thread=True): every use of it from
\* another thread than the one that opened it raises ProgrammingError.
UsableBy(c, p, h) == c # "sqlite" \/ h[c].thread = p

\* extract called from thread p on connector c with the backends in order: the
\* SQLite connector connects when self.connection is None; the read raises
\* inside the try block when the handle belongs to another thread, and the
\* handler returns pd.DataFrame().
ExtractInThread(c, p) ==
    LET opens == c = "sqlite" /\ handles[c].current = 0
        after == IF opens
                 THEN [handles EXCEPT ![c].current = handles[c].opened + 1,
                                      ![c].open = @ \cup {handles[c].opened + 1},
                                      ![c].opened = @ + 1,
                                      ![c].thread = p,
                                      ![c].last = "extract"]
                 ELSE [handles EXCEPT ![c].last = "extract"]
    IN  [handles |-> after,
         df |-> IF UsableBy(c, p, after) THEN Read(c, store[c]) ELSE EmptyDF]

\* data = self.source_connector.extract(**extract_params) in the thread of p,
\* and the branch on data.empty.
RunExtractInThread(p) ==
    /\ pc[p] = "extract"
    /\ source_connector[p] # None
    /\ LET c == source_connector[p]
           r == ExtractInThread(c, p)
       IN  /\ handles' = r.handles
           /\ connection' = [connection EXCEPT ![c] = r.handles[c].current # 0]
           /\ IF DFEmpty(r.df)
              THEN /\ Leave(p, OnEmptyExtraction(metrics[p]))
                   /\ log' = [log EXCEPT ![p].extract = DFLen(r.df)]
              ELSE /\ metrics' = [metrics EXCEPT ![p] = RecordExtracted(@, r.df)]
                   /\ data' = [data EXCEPT ![p] = r.df]
                   /\ log' = [log EXCEPT ![p].extract = DFLen(r.df), ![p].input = r.df]
                   /\ pc' = [pc EXCEPT ![p] = "transform"]
                   /\ UNCHANGED <<ret, now, idx>>
    /\ UNCHANGED <<source_connector, target_connector, steps, view>>
    /\ UNCHANGED <<probe, store, io, fw>>

\* The steps of the two run() calls, in any order.
NextThreads ==
    \/ \E p \in Pipelines : pc[p] = "idle" /\ RunStart(p)
    \/ \E p \in Pipelines : RunExtractInThread(p)
    \/ \E p \in Pipelines : RunNoTarget(p)
    \/ \E p \in Pipelines : RunLoad(p) /\ log'[p].load_ok

SpecThreads == InitThreads /\ [][NextThreads]_vars

\* What run() of p gives when no other run() is under way: its return value
\* and its metrics.
RunAlone(p) ==
    LET c == source_connector[p]
        df == Read(c, store[c])
        m == StartMetrics(InitMetrics, NoTime)
    IN  IF DFEmpty(df) THEN OnEmptyExtraction(m)
        ELSE IF target_connector[p] = None THEN OnNoTarget(RecordExtracted(m, df))
        ELSE OnLoadSuccess(RecordExtracted(m, df), df)

\* C30: however the steps of the run() calls of two pipelines interleave, also
\* when both have the same, not yet connected connector as source, each call
\* returns, and leaves the status, rows_extracted and rows_loaded, as it does
\* when it executes alone.
C30_RunsDoNotInterfere ==
    \A p \in Pipelines :
        Returned(p)
        => /\ ret[p] = RunAlone(p).ret
           /\ metrics[p].status = RunAlone(p).metrics.status
           /\ metrics[p].rows_extracted = RunAlone(p).metrics.rows_extracted
           /\ metrics[p].rows_loaded = RunAlone(p).metrics.rows_loaded

\* The same for two pipelines that do not share their source connector.
RunsWithOwnSourceDoNotInterfere ==
    (\A p, q \in Pipelines : p # q => source_connector[p] # source_connector[q])
    => C30_RunsDoNotInterfere

====
